---- MODULE Spec2Model ----
(***************************************************************************)
(* Model of the highScores service (src/app): a FastAPI application whose  *)
(* handlers run concurrently in a thread pool, each on its own SQLite       *)
(* connection.  The committed database is the pair (games, highscores);     *)
(* a handler that issues several statements is one action per statement,    *)
(* so that other requests interleave exactly where the code lets them.      *)
(***************************************************************************)
EXTENDS Integers, Sequences, FiniteSets, TLC

(* ---------- bounds of the model ---------- *)
MaxRowId  == 3      \* largest rowid table highscores hands out
MaxClock  == 1      \* readings of datetime.utcnow() are 0..MaxClock

Conns  == {1, 2}    \* connections: requests in flight at the same time
Serial == {1}       \* one request at a time

(* ---------- program constants ---------- *)
ADMIN_TOKEN   == "change-me"
NameMin       == 1
NameMax       == 32
ScoreMin      == 0
ScoreMax      == 1000000000
LimitMin      == 1
LimitMax      == 50
LimitDefault  == 10

NONE == "None"       \* an absent header / query parameter / row

(* ---------- values requests are built from ---------- *)
PublicIds == {"g_1", "g_2"}          \* values of "g_" + uuid4().hex[:16]
ApiKeys   == {"sk_1", "sk_2"}        \* values of generate_api_key()
\* what a registration can draw: any pair, or only pairs that never collide
Draws      == PublicIds \X ApiKeys
FreshDraws == {<<"g_1", "sk_1">>, <<"g_2", "sk_2">>}
KeyHeaders   == {NONE} \cup ApiKeys
AdminHeaders == {NONE, ADMIN_TOKEN, "wrong"}

Whitespace == {" ", "\t"}

Rep(ch, n) == [i \in 1..n |-> ch]

PlayerNames ==
  { <<>>, <<" ">>, <<" ", "b", "\t">>, Rep("a", NameMax),
    Rep("a", NameMax + 1), <<" ">> \o Rep("a", NameMax) }
Scores == {ScoreMin - 1, 50, 90, ScoreMax + 1}
\* the limit query parameter: <<>> when omitted, <<n>> when given
Limits == {<<>>, <<LimitMin - 1>>, <<LimitMin>>, <<2>>, <<LimitMax>>, <<LimitMax + 1>>}
GameNames == { <<" ", "G">> }
Emails    == { <<"A", "@", "b">> }

(* ---------- pure helpers ---------- *)
Max(S) == CHOOSE x \in S : \A y \in S : y <= x
Min2(a, b) == IF a <= b THEN a ELSE b

RECURSIVE LStrip(_)
LStrip(s) == IF s # <<>> /\ Head(s) \in Whitespace THEN LStrip(Tail(s)) ELSE s

RECURSIVE RStrip(_)
RStrip(s) ==
  IF s # <<>> /\ s[Len(s)] \in Whitespace
  THEN RStrip(SubSeq(s, 1, Len(s) - 1)) ELSE s

\* str.strip(): drops leading and trailing whitespace
Strip(s) == RStrip(LStrip(s))

LowerChar(ch) == IF ch = "A" THEN "a" ELSE IF ch = "B" THEN "b" ELSE ch
\* str.lower()
Lower(s) == [i \in 1..Len(s) |-> LowerChar(s[i])]

\* constr(min_length=1, max_length=32): the length of the raw string
ValidPlayerName(s) == Len(s) >= NameMin /\ Len(s) <= NameMax
\* conint(ge=0, le=1_000_000_000)
ValidScore(n) == n >= ScoreMin /\ n <= ScoreMax
\* HighscoreIn
ValidHighscoreIn(name, score) == ValidPlayerName(name) /\ ValidScore(score)
\* mutant: Query(10, ge=0, le=50)
ValidLimitFromZero(l) == l = <<>> \/ (l[1] >= 0 /\ l[1] <= LimitMax)

\* Query(10, ge=1, le=50)
ValidLimit(l) == l = <<>> \/ (l[1] >= LimitMin /\ l[1] <= LimitMax)
EffectiveLimit(l) == IF l = <<>> THEN LimitDefault ELSE l[1]

\* INTEGER PRIMARY KEY without AUTOINCREMENT: one more than the largest rowid
NextId(rows) == IF rows = {} THEN 1 ELSE Max({r.id : r \in rows}) + 1

\* get_game_by_public_id: the rows of games with that public_id (none or one)
get_game_by_public_id(rows, public_id) == {g \in rows : g.public_id = public_id}

\* mutant: ORDER BY score DESC, created_at DESC
RankBeforeLatestFirst(a, b) ==
  a.score > b.score \/ (a.score = b.score /\ a.created_at > b.created_at)

\* ORDER BY score DESC, created_at ASC: a comes strictly before b
RankBefore(a, b) ==
  a.score > b.score \/ (a.score = b.score /\ a.created_at < b.created_at)

\* every order of the rows the ORDER BY clause allows (rows equal on both
\* keys come in an order SQL leaves open)
RankedSeqs(rows) ==
  {s \in [1..Cardinality(rows) -> rows] :
     /\ \A i, j \in DOMAIN s : i # j => s[i] # s[j]
     /\ \A i, j \in DOMAIN s : i < j => ~RankBefore(s[j], s[i])}

\* ... LIMIT ?
TopRows(rows, limit) ==
  {SubSeq(s, 1, Min2(limit, Len(s))) : s \in RankedSeqs(rows)}

\* ORDER BY created_at ASC
CreatedSeqs(rows) ==
  {s \in [1..Cardinality(rows) -> rows] :
     /\ \A i, j \in DOMAIN s : i # j => s[i] # s[j]
     /\ \A i, j \in DOMAIN s : i < j => s[i].created_at <= s[j].created_at}

(* ---------- response models (src/app/models.py) ---------- *)
GameOut(public_id, name, email, api_key, created_at) ==
  [public_id |-> public_id, name |-> name, email |-> email,
   api_key |-> api_key, created_at |-> created_at]

\* mutant: the read model carries the secret
GameInfoWithKey(row) ==
  [public_id |-> row.public_id, name |-> row.name,
   created_at |-> row.created_at, api_key |-> row.api_key]

GameInfo(row) ==
  [public_id |-> row.public_id, name |-> row.name, created_at |-> row.created_at]

HighscoreOut(player_name, score, created_at) ==
  [player_name |-> player_name, score |-> score, created_at |-> created_at]

HighscoreList(game_id, highscores) ==
  [game_id |-> game_id, highscores |-> highscores]

(* ---------- state ---------- *)
VARIABLES
  games,       \* committed rows of table games
  highscores,  \* committed rows of table highscores
  clock,       \* the current reading of datetime.utcnow()
  retired,     \* public ids whose DELETE /games/{public_id} succeeded, and
               \* the public ids and api keys of the rows it removed
  writer,      \* the connection holding SQLite's write lock, 0 if none
  tx,          \* the writer's uncommitted view of the two tables
  pc,          \* per connection: the statement its handler is about to run
  loc,         \* per connection: the request and the handler's locals
  resp         \* the response sent by the step just taken, if any

vars == <<games, highscores, clock, retired, writer, tx, pc, loc, resp>>

NoLoc ==
  [op |-> "none", public_id |-> NONE, api_key |-> NONE, key |-> NONE,
   admin |-> NONE, game_id |-> 0, now |-> 0, name |-> <<>>, score |-> 0,
   limit |-> <<>>, eff_limit |-> 0]

NoTx == [games |-> {}, highscores |-> {}]

NoResp == [conn |-> 0, op |-> "none", status |-> 0, req |-> NoLoc, body |-> <<>>]

Response(c, req, status, body) ==
  [conn |-> c, op |-> req.op, status |-> status, req |-> req, body |-> body]

Detail(text) == <<[detail |-> text]>>

Init ==
  /\ games = {}
  /\ highscores = {}
  /\ clock = 0
  /\ retired = {}
  /\ writer = 0
  /\ tx = NoTx
  /\ pc = [c \in Conns |-> "idle"]
  /\ loc = [c \in Conns |-> NoLoc]
  /\ resp = NoResp

\* the wall clock advances between requests and between statements
Tick ==
  /\ clock < MaxClock
  /\ clock' = clock + 1
  /\ resp' = NoResp
  /\ UNCHANGED <<games, highscores, retired, writer, tx, pc, loc>>

\* a handler that ends: the connection is closed and the response sent
Finish(c, r) ==
  /\ pc' = [pc EXCEPT ![c] = "idle"]
  /\ loc' = [loc EXCEPT ![c] = NoLoc]
  /\ resp' = r

\* what a handler keeps of its request once the headers are checked
Locals(req) ==
  [req EXCEPT !.key = NONE, !.admin = NONE,
              !.public_id = IF req.op \in {"get_highscores", "delete_game"}
                            THEN req.public_id ELSE NONE]

\* a handler that passed its checks and goes on to its first statement:
\* no response yet (status 0), the request it accepted is recorded
Accept(c, label, req) ==
  /\ pc' = [pc EXCEPT ![c] = label]
  /\ loc' = [loc EXCEPT ![c] = Locals(req)]
  /\ resp' = Response(c, req, 0, <<>>)

\* a handler that goes on to its next statement
Goto(c, label, l) ==
  /\ pc' = [pc EXCEPT ![c] = label]
  /\ loc' = [loc EXCEPT ![c] = l]
  /\ resp' = NoResp

(* ---------- POST /games ---------- *)
\* mutant: a draw that collides is replaced by a fresh one and inserted
create_game_retry(c, name, email, public_id, api_key) ==
  LET req == [NoLoc EXCEPT !.op = "create_game", !.public_id = public_id,
                           !.api_key = api_key, !.now = clock]
      unique == \A g \in games :
                   g.public_id # public_id /\ g.api_key # api_key
      fresh == {d \in Draws : \A g \in games :
                   g.public_id # d[1] /\ g.api_key # d[2]}
      Insert(d) ==
        /\ games' = games \cup
             {[id |-> NextId(games), public_id |-> d[1],
               name |-> Strip(name), email |-> Lower(email),
               api_key |-> d[2], created_at |-> clock]}
        /\ Finish(c, Response(c, req, 201,
               <<GameOut(d[1], Strip(name), Lower(email), d[2], clock)>>))
  IN
  /\ pc[c] = "idle"
  /\ writer = 0
  /\ public_id \notin retired /\ api_key \notin retired
  /\ IF unique
     THEN Insert(<<public_id, api_key>>)
     ELSE IF fresh # {}
     THEN \E d \in fresh : Insert(d)
     ELSE /\ games' = games
          /\ Finish(c, Response(c, req, 500, Detail("Internal Server Error")))
  /\ UNCHANGED <<highscores, clock, retired, writer, tx>>

\* the request record keeps the two tokens the handler generated
create_game(c, name, email, public_id, api_key) ==
  LET req == [NoLoc EXCEPT !.op = "create_game", !.public_id = public_id,
                           !.api_key = api_key, !.now = clock]
      row == [id |-> NextId(games), public_id |-> public_id,
              name |-> Strip(name), email |-> Lower(email),
              api_key |-> api_key, created_at |-> clock]
      unique == \A g \in games :
                   g.public_id # public_id /\ g.api_key # api_key
  IN
  /\ pc[c] = "idle"
  /\ writer = 0
  \* uuid4 and token_urlsafe(32): a draw may repeat the token of a tenant
  \* in the table (the UNIQUE constraint's case), never one of a deleted tenant
  /\ public_id \notin retired /\ api_key \notin retired
  /\ IF unique
     THEN /\ games' = games \cup {row}
          /\ Finish(c, Response(c, req, 201,
                 <<GameOut(public_id, Strip(name), Lower(email), api_key, clock)>>))
     ELSE \* sqlite3.IntegrityError: UNIQUE constraint failed
          /\ games' = games
          /\ Finish(c, Response(c, req, 500, Detail("Internal Server Error")))
  /\ UNCHANGED <<highscores, clock, retired, writer, tx>>

(* ---------- POST /games/{public_id}/highscores ---------- *)
InFlightInserts == Cardinality({c \in Conns : pc[c] = "submit_insert"})

\* mutant: the body is validated inside the handler, after the lookup
submit_highscore_lookup_first(c, public_id, name, score) ==
  LET req == [NoLoc EXCEPT !.op = "submit_highscore", !.public_id = public_id,
                           !.name = name, !.score = score]
      found == get_game_by_public_id(games, public_id)
  IN
  /\ pc[c] = "idle"
  /\ IF found = {}
     THEN Finish(c, Response(c, req, 404, Detail("Game not found")))
     ELSE IF ~ValidHighscoreIn(name, score)
     THEN Finish(c, Response(c, req, 422, Detail("validation error")))
     ELSE /\ NextId(highscores) + InFlightInserts <= MaxRowId
          /\ \E game \in found :
               Accept(c, "submit_insert",
                      [req EXCEPT !.game_id = game.id, !.now = clock])
  /\ UNCHANGED <<games, highscores, clock, retired, writer, tx>>

\* request validation, get_game_by_public_id, now = utcnow()
submit_highscore_lookup(c, public_id, name, score) ==
  LET req == [NoLoc EXCEPT !.op = "submit_highscore", !.public_id = public_id,
                           !.name = name, !.score = score]
      found == get_game_by_public_id(games, public_id)
  IN
  /\ pc[c] = "idle"
  /\ IF ~ValidHighscoreIn(name, score)
     THEN Finish(c, Response(c, req, 422, Detail("validation error")))
     ELSE IF found = {}
     THEN Finish(c, Response(c, req, 404, Detail("Game not found")))
     ELSE /\ NextId(highscores) + InFlightInserts <= MaxRowId
          /\ \E game \in found :
               Accept(c, "submit_insert",
                    [req EXCEPT !.game_id = game.id, !.now = clock])
  /\ UNCHANGED <<games, highscores, clock, retired, writer, tx>>

\* INSERT INTO highscores ...; commit; the response
submit_highscore_insert(c) ==
  LET l == loc[c]
      row == [id |-> NextId(highscores), game_id |-> l.game_id,
              player_name |-> Strip(l.name), score |-> l.score,
              created_at |-> l.now]
  IN
  /\ pc[c] = "submit_insert"
  /\ writer = 0
  /\ highscores' = highscores \cup {row}
  /\ Finish(c, Response(c, l, 201,
        <<HighscoreOut(Strip(l.name), l.score, l.now)>>))
  /\ UNCHANGED <<games, clock, retired, writer, tx>>

(* ---------- GET /games/{public_id}/highscores ---------- *)
\* request validation, get_game_by_public_id
get_highscores_lookup(c, public_id, limit) ==
  LET req == [NoLoc EXCEPT !.op = "get_highscores", !.public_id = public_id,
                           !.limit = limit]
      found == get_game_by_public_id(games, public_id)
  IN
  /\ pc[c] = "idle"
  /\ IF ~ValidLimit(limit)
     THEN Finish(c, Response(c, req, 422, Detail("validation error")))
     ELSE IF found = {}
     THEN Finish(c, Response(c, req, 404, Detail("Game not found")))
     ELSE \E game \in found :
            Accept(c, "topn_select",
                 [req EXCEPT !.game_id = game.id,
                             !.eff_limit = EffectiveLimit(limit)])
  /\ UNCHANGED <<games, highscores, clock, retired, writer, tx>>

\* SELECT ... WHERE game_id = ? ORDER BY score DESC, created_at ASC LIMIT ?
get_highscores_select(c) ==
  LET l == loc[c]
      owned == {h \in highscores : h.game_id = l.game_id}
  IN
  /\ pc[c] = "topn_select"
  /\ \E rows \in TopRows(owned, l.eff_limit) :
       Finish(c, Response(c, l, 200,
         <<HighscoreList(l.public_id,
             [i \in 1..Len(rows) |->
                HighscoreOut(rows[i].player_name, rows[i].score,
                             rows[i].created_at)])>>))
  /\ UNCHANGED <<games, highscores, clock, retired, writer, tx>>

(* ---------- src/app/auth.py ---------- *)
\* require_admin_token
require_admin_token(x_admin_token) == x_admin_token = ADMIN_TOKEN

\* mutant: the api key is compared with every game's key, not the named game's
verify_any_key(rows, public_id, x_api_key, x_admin_token) ==
  LET found == get_game_by_public_id(rows, public_id) IN
  IF found = {} THEN 404
  ELSE IF x_admin_token = ADMIN_TOKEN THEN 200
  ELSE IF x_api_key # NONE /\ x_api_key # ""
          /\ \E game \in rows : x_api_key = game.api_key THEN 200
  ELSE 403

\* mutant: the credentials are checked before the game is looked up
verify_before_lookup(rows, public_id, x_api_key, x_admin_token) ==
  LET found == get_game_by_public_id(rows, public_id) IN
  IF x_admin_token # ADMIN_TOKEN
     /\ ~(x_api_key # NONE /\ \E game \in found : x_api_key = game.api_key)
  THEN 403
  ELSE IF found = {} THEN 404
  ELSE 200

\* verify_game_ownership_or_admin: 200 when it returns the game row, else the
\* status of the HTTPException it raises
verify_game_ownership_or_admin(rows, public_id, x_api_key, x_admin_token) ==
  LET found == get_game_by_public_id(rows, public_id) IN
  IF found = {} THEN 404
  ELSE IF x_admin_token = ADMIN_TOKEN THEN 200
  ELSE IF x_api_key # NONE /\ x_api_key # ""
          /\ \E game \in found : x_api_key = game.api_key THEN 200
  ELSE 403

(* ---------- GET /games ---------- *)
list_games(c, x_admin_token) ==
  LET req == [NoLoc EXCEPT !.op = "list_games", !.admin = x_admin_token] IN
  /\ pc[c] = "idle"
  /\ IF ~require_admin_token(x_admin_token)
     THEN Finish(c, Response(c, req, 401, Detail("Invalid admin token")))
     ELSE \E rows \in CreatedSeqs(games) :
            Finish(c, Response(c, req, 200,
              [i \in 1..Len(rows) |-> GameInfo(rows[i])]))
  /\ UNCHANGED <<games, highscores, clock, retired, writer, tx>>

(* ---------- GET /games/{public_id} ---------- *)
get_game(c, public_id, x_admin_token) ==
  LET req == [NoLoc EXCEPT !.op = "get_game", !.public_id = public_id,
                           !.admin = x_admin_token]
      found == get_game_by_public_id(games, public_id)
  IN
  /\ pc[c] = "idle"
  /\ IF ~require_admin_token(x_admin_token)
     THEN Finish(c, Response(c, req, 401, Detail("Invalid admin token")))
     ELSE IF found = {}
     THEN Finish(c, Response(c, req, 404, Detail("Game not found")))
     ELSE \E game \in found :
            Finish(c, Response(c, req, 200, <<GameInfo(game)>>))
  /\ UNCHANGED <<games, highscores, clock, retired, writer, tx>>

(* ---------- the owner-or-admin routes ---------- *)
\* the call of verify_game_ownership_or_admin that opens both DELETE handlers
owner_route_verify(c, op, label, public_id, x_api_key, x_admin_token) ==
  LET req == [NoLoc EXCEPT !.op = op, !.public_id = public_id,
                           !.key = x_api_key, !.admin = x_admin_token]
      status == verify_game_ownership_or_admin(games, public_id,
                                               x_api_key, x_admin_token)
  IN
  /\ pc[c] = "idle"
  /\ IF status = 404
     THEN Finish(c, Response(c, req, 404, Detail("Game not found")))
     ELSE IF status = 403
     THEN Finish(c, Response(c, req, 403, Detail("Unauthorized")))
     ELSE \E game \in get_game_by_public_id(games, public_id) :
            Accept(c, label, [req EXCEPT !.game_id = game.id])
  /\ UNCHANGED <<games, highscores, clock, retired, writer, tx>>

(* ---------- DELETE /games/{public_id}/highscores ---------- *)
delete_highscores_verify(c, public_id, x_api_key, x_admin_token) ==
  owner_route_verify(c, "delete_highscores", "dh_delete",
                     public_id, x_api_key, x_admin_token)

\* mutant: the DELETE has no WHERE clause
delete_highscores_no_where(c) ==
  LET l == loc[c] IN
  /\ pc[c] = "dh_delete"
  /\ writer = 0
  /\ highscores' = {}
  /\ Finish(c, Response(c, l, 200,
        <<[ok |-> TRUE, deleted |-> Cardinality(highscores)]>>))
  /\ UNCHANGED <<games, clock, retired, writer, tx>>

\* DELETE FROM highscores WHERE game_id = ?; deleted = cur.rowcount; commit
delete_highscores_delete(c) ==
  LET l == loc[c]
      owned == {h \in highscores : h.game_id = l.game_id}
  IN
  /\ pc[c] = "dh_delete"
  /\ writer = 0
  /\ highscores' = highscores \ owned
  /\ Finish(c, Response(c, l, 200,
        <<[ok |-> TRUE, deleted |-> Cardinality(owned)]>>))
  /\ UNCHANGED <<games, clock, retired, writer, tx>>

(* ---------- DELETE /games/{public_id} ---------- *)
delete_game_verify(c, public_id, x_api_key, x_admin_token) ==
  owner_route_verify(c, "delete_game", "dg_scores",
                     public_id, x_api_key, x_admin_token)

\* mutant: the connection is in autocommit mode, the first DELETE is
\* committed on its own
delete_game_scores_autocommit(c) ==
  LET l == loc[c] IN
  /\ pc[c] = "dg_scores"
  /\ writer = 0
  /\ writer' = c
  /\ highscores' = {h \in highscores : h.game_id # l.game_id}
  /\ tx' = [games |-> games, highscores |-> highscores']
  /\ Goto(c, "dg_row", l)
  /\ UNCHANGED <<games, clock, retired>>

\* DELETE FROM highscores WHERE game_id = ?  (sqlite3 opens a transaction
\* before the first DELETE: the change stays in the connection until commit)
delete_game_scores(c) ==
  LET l == loc[c] IN
  /\ pc[c] = "dg_scores"
  /\ writer = 0
  /\ writer' = c
  /\ tx' = [games |-> games,
            highscores |-> {h \in highscores : h.game_id # l.game_id}]
  /\ Goto(c, "dg_row", l)
  /\ UNCHANGED <<games, highscores, clock, retired>>

\* DELETE FROM games WHERE id = ?  (same transaction)
delete_game_row(c) ==
  LET l == loc[c] IN
  /\ pc[c] = "dg_row"
  /\ writer = c
  /\ tx' = [tx EXCEPT !.games = {g \in tx.games : g.id # l.game_id}]
  /\ Goto(c, "dg_commit", l)
  /\ UNCHANGED <<games, highscores, clock, retired, writer>>

\* conn.commit(): both deletions reach the database together
delete_game_commit(c) ==
  LET l == loc[c] IN
  /\ pc[c] = "dg_commit"
  /\ writer = c
  /\ games' = tx.games
  /\ highscores' = tx.highscores
  /\ retired' = retired \cup {l.public_id}
                        \cup {g.public_id : g \in games \ tx.games}
                        \cup {g.api_key : g \in games \ tx.games}
  /\ writer' = 0
  /\ tx' = NoTx
  /\ Finish(c, Response(c, l, 200, <<[ok |-> TRUE]>>))
  /\ UNCHANGED clock

\* a statement or the commit raises: finally conn.close() drops the
\* uncommitted transaction
delete_game_fail(c) ==
  LET l == loc[c] IN
  /\ pc[c] \in {"dg_row", "dg_commit"}
  /\ writer = c
  /\ writer' = 0
  /\ tx' = NoTx
  /\ Finish(c, Response(c, l, 500, Detail("Internal Server Error")))
  /\ UNCHANGED <<games, highscores, clock, retired>>

(* ---------- next-state relations ---------- *)
\* one step of the handler running on connection c, by route, the request
\* drawn from the given sets
Register(c, draws) ==
  \E name \in GameNames, email \in Emails, d \in draws :
    create_game(c, name, email, d[1], d[2])

Submit(c, names, scores) ==
  \/ \E public_id \in PublicIds, name \in names, score \in scores :
       submit_highscore_lookup(c, public_id, name, score)
  \/ submit_highscore_insert(c)

TopN(c, limits) ==
  \/ \E public_id \in PublicIds, limit \in limits :
       get_highscores_lookup(c, public_id, limit)
  \/ get_highscores_select(c)

AdminReads(c, admins) ==
  \/ \E x_admin_token \in admins : list_games(c, x_admin_token)
  \/ \E public_id \in PublicIds, x_admin_token \in admins :
       get_game(c, public_id, x_admin_token)

DeleteAll(c, keys, admins) ==
  \/ \E public_id \in PublicIds, x_api_key \in keys, x_admin_token \in admins :
       delete_highscores_verify(c, public_id, x_api_key, x_admin_token)
  \/ delete_highscores_delete(c)

DeleteTenantCascade(c, keys, admins) ==
  \/ \E public_id \in PublicIds, x_api_key \in keys, x_admin_token \in admins :
       delete_game_verify(c, public_id, x_api_key, x_admin_token)
  \/ delete_game_scores(c)
  \/ delete_game_row(c)
  \/ delete_game_commit(c)
  \/ delete_game_fail(c)

\* requests in flight together: well-formed requests of an administrator
Next ==
  \E c \in Conns :
    \/ Register(c, FreshDraws)
    \/ Submit(c, {<<"a">>}, {50})
    \/ TopN(c, {<<>>})
    \/ AdminReads(c, {ADMIN_TOKEN})
    \/ DeleteAll(c, {NONE}, {ADMIN_TOKEN})
    \/ DeleteTenantCascade(c, {NONE}, {ADMIN_TOKEN})

Spec == Init /\ [][Next]_vars

\* the owner-or-admin routes under every combination of credentials, with
\* registrations and submissions in flight beside them
AuthNext ==
  \E c \in Conns :
    \/ Register(c, FreshDraws)
    \/ Submit(c, {<<"a">>}, {50})
    \/ DeleteAll(c, KeyHeaders, AdminHeaders)
    \/ DeleteTenantCascade(c, KeyHeaders, AdminHeaders)

SpecAuth == Init /\ [][AuthNext]_vars

\* the ranked query, one request at a time: scores that tie and differ, timestamps that tie and
\* differ, every kind of limit
RankNext ==
  \/ Tick
  \/ \E c \in Serial :
       \/ Register(c, FreshDraws)
       \/ Submit(c, {<<"a">>}, {50, 90})
       \/ TopN(c, Limits)

SpecRank == Init /\ [][RankNext]_vars

\* submissions with every kind of payload, one request at a time
InputNext ==
  \E c \in Serial :
    \/ Register(c, FreshDraws)
    \/ Submit(c, PlayerNames, {ScoreMin - 1, 50, ScoreMax + 1})
    \/ TopN(c, {<<>>})

SpecInput == Init /\ [][InputNext]_vars

\* registrations whose tokens may repeat those of a tenant in the table,
\* with tenants being deleted beside them
UniqueNext ==
  \E c \in Conns :
    \/ Register(c, Draws)
    \/ DeleteTenantCascade(c, {NONE}, {ADMIN_TOKEN})

SpecUnique == Init /\ [][UniqueNext]_vars

(* ====================================================================== *)
(*                              the claims                                *)
(* ====================================================================== *)
OwnerRoutes == {"delete_highscores", "delete_game"}
OwnerLabels == {"dh_delete", "dg_scores"}

\* the step just taken ran verify_game_ownership_or_admin for a request on
\* an owner-or-admin route (status 0: the request passed and goes on)
Verified == resp'.op \in OwnerRoutes /\ resp'.status \in {0, 403, 404}

Authorized(game) ==
  /\ resp'.status = 0
  /\ pc'[resp'.conn] \in OwnerLabels
  /\ loc'[resp'.conn].game_id = game.id

\* C1: on the owner-or-admin routes a request with tenant T's api_key and no
\* valid admin token is authorized against T and answered 403 against any
\* other existing tenant U, whose row and entries stay as they are; a request
\* with the admin token is authorized against every existing tenant whatever
\* api_key comes with it.
C1_OwnerOrAdmin ==
  [][Verified =>
       \A U \in get_game_by_public_id(games, resp'.req.public_id) :
         LET r == resp'.req IN
         /\ r.admin = ADMIN_TOKEN => Authorized(U)
         /\ (r.admin # ADMIN_TOKEN /\ r.key = U.api_key) => Authorized(U)
         /\ (r.admin # ADMIN_TOKEN
               /\ \E T \in games : T # U /\ T.api_key = r.key)
              => /\ resp'.status = 403
                 /\ pc'[resp'.conn] = "idle"
                 /\ games' = games
                 /\ highscores' = highscores]_vars

\* T's key was presented against U, which holds entries, and was refused
C1_Witness ==
  /\ resp.op \in OwnerRoutes
  /\ resp.status = 403
  /\ \E T, U \in games :
       /\ T # U
       /\ U.public_id = resp.req.public_id
       /\ T.api_key = resp.req.key
       /\ \E h \in highscores : h.game_id = U.id

\* C5: on the owner-or-admin routes a public_id with no tenant is answered
\* 404 and never 403, whatever api_key and admin token come with it; 403 is
\* answered only when the tenant exists and neither credential matches.
C5_NotFoundBeforeForbidden ==
  [][Verified =>
       LET r == resp'.req
           found == get_game_by_public_id(games, r.public_id)
       IN
       /\ found = {} => resp'.status = 404
       /\ resp'.status = 404 => found = {}
       /\ resp'.status = 403 =>
            /\ found # {}
            /\ r.admin # ADMIN_TOKEN
            /\ \A U \in found : r.key # U.api_key]_vars

\* an unknown public_id came with a wrong admin token and a live tenant's key
C5_Witness ==
  /\ resp.op \in OwnerRoutes
  /\ resp.status = 404
  /\ resp.req.admin = "wrong"
  /\ \E T \in games : T.api_key = resp.req.key

\* C10: an authorized DeleteAll(T) removes every entry owned by T, answers
\* with deleted = the number of entries it removed, and leaves T's row and
\* every other tenant's entries as they are; on a tenant with no entries it
\* still succeeds, with deleted = 0.
C10_DeleteAll ==
  [][\A c \in Conns :
       (pc[c] = "dh_delete" /\ pc'[c] # "dh_delete") =>
         LET owned == {h \in highscores : h.game_id = loc[c].game_id} IN
         /\ resp'.conn = c
         /\ resp'.op = "delete_highscores"
         /\ resp'.status = 200
         /\ resp'.body[1].ok
         /\ resp'.body[1].deleted = Cardinality(owned)
         /\ resp'.body[1].deleted
              = Cardinality(highscores) - Cardinality(highscores')
         /\ \A h \in highscores' : h.game_id # loc[c].game_id
         /\ \A h \in highscores : h.game_id # loc[c].game_id
                                    => h \in highscores'
         /\ highscores' \subseteq highscores
         /\ games' = games]_vars

\* DeleteAll answered deleted = 0 for a live tenant while another tenant's
\* entries stayed in the store
C10_Witness ==
  /\ resp.op = "delete_highscores"
  /\ resp.status = 200
  /\ resp.body[1].deleted = 0
  /\ \E T \in games : T.id = resp.req.game_id
  /\ \E h \in highscores : h.game_id # resp.req.game_id

\* C2: every score entry in the store references an existing tenant, in every
\* reachable state, whatever the interleaving of Register, Submit, DeleteAll
\* and DeleteTenantCascade.
C2_NoOrphanEntries ==
  \A h \in highscores : \E g \in games : g.id = h.game_id

DeleteGameLabels == {"dg_scores", "dg_row", "dg_commit"}

\* a lookup by public_id answered in the step just taken: get_game, or the
\* first statement of get_highscores
LookedUp ==
  \/ resp'.op = "get_game" /\ resp'.status \in {200, 404}
  \/ resp'.op = "get_highscores" /\ resp'.status \in {0, 404}

\* C6: DeleteTenantCascade is atomic and final.  A step of its handler that
\* changes what other connections read is its commit, and removes the tenant
\* row and all its entries together; a failure changes nothing; and once it
\* has succeeded for a public_id, every later Lookup and TopN of that
\* public_id is answered 404.
C6_CascadeAtomicFinal ==
  [][/\ \A c \in Conns :
          (pc[c] \in DeleteGameLabels /\ pc'[c] # pc[c]
             /\ (games' # games \/ highscores' # highscores)) =>
            /\ resp'.op = "delete_game" /\ resp'.status = 200
            /\ \A g \in games' : g.id # loc[c].game_id
            /\ \A h \in highscores' : h.game_id # loc[c].game_id
            /\ \A g \in games : g.id # loc[c].game_id => g \in games'
            /\ \A h \in highscores :
                 h.game_id # loc[c].game_id => h \in highscores'
     /\ (resp'.op = "delete_game" /\ resp'.status = 200) =>
          /\ get_game_by_public_id(games', resp'.req.public_id) = {}
          /\ resp'.req.public_id \in retired'
     /\ (resp'.op = "delete_game" /\ resp'.status = 500) =>
          (games' = games /\ highscores' = highscores)
     /\ (LookedUp /\ resp'.req.public_id \in retired) => resp'.status = 404
    ]_vars

\* a TopN of a deleted public_id is answered 404 while another connection
\* holds both deletions of a second tenant, uncommitted, and the store still
\* shows that tenant and its entries
C6_Witness ==
  /\ resp.op = "get_highscores"
  /\ resp.status = 404
  /\ resp.req.public_id \in retired
  /\ \E c \in Conns :
       /\ pc[c] = "dg_commit"
       /\ tx.games # games
       /\ tx.highscores # highscores

\* the api keys a response body shows
ShownKeys(r) ==
  {r.body[i].api_key : i \in {j \in DOMAIN r.body : "api_key" \in DOMAIN r.body[j]}}

\* the public ids and texts a response body shows
ShownTexts(r) ==
  {r.body[i].public_id :
     i \in {j \in DOMAIN r.body : "public_id" \in DOMAIN r.body[j]}}
  \cup {r.body[i].game_id :
     i \in {j \in DOMAIN r.body : "game_id" \in DOMAIN r.body[j]}}
  \cup {r.body[i].detail :
     i \in {j \in DOMAIN r.body : "detail" \in DOMAIN r.body[j]}}

\* C7: a response shows an api_key only if it is the 201 answer to the
\* registration that created the tenant holding that key; no response of
\* list-games, get-game, submit, TopN, DeleteAll or DeleteTenantCascade shows
\* any api_key.
C7_ApiKeyOnlyAtCreation ==
  /\ ShownTexts(resp) \cap ApiKeys = {}
  /\ \A k \in ShownKeys(resp) :
       /\ resp.op = "create_game"
       /\ resp.status = 201
       /\ Len(resp.body) = 1
       /\ \E g \in games :
            /\ g.api_key = k
            /\ g.public_id = resp.body[1].public_id
            /\ g.public_id = resp.req.public_id

\* the administrator lists two tenants' games
C7_Witness ==
  /\ resp.op = "list_games"
  /\ resp.status = 200
  /\ Len(resp.body) = 2

\* the entries of the tenant a TopN answer was computed for
OwnedBy(r) == {h \in highscores : h.game_id = r.req.game_id}

\* the answer's rows are rows of distinct entries of that tenant
RowsOfEntries(rows, owned) ==
  \E s \in [1..Len(rows) -> owned] :
    /\ \A i, j \in 1..Len(rows) : i # j => s[i] # s[j]
    /\ \A i \in 1..Len(rows) :
         /\ rows[i].player_name = s[i].player_name
         /\ rows[i].score = s[i].score
         /\ rows[i].created_at = s[i].created_at

\* C3: TopN(tenant, limit) with a valid limit returns exactly min(limit, n)
\* entries, all of that tenant, and they are a prefix of the tenant's entries
\* sorted by score descending, ties by created_at ascending: the rows are in
\* that order and no entry left out ranks before a row returned.
C3_TopNRanked ==
  (resp.op = "get_highscores" /\ resp.status = 200) =>
    LET rows == resp.body[1].highscores
        owned == OwnedBy(resp)
        n == Cardinality(owned)
        limit == resp.req.eff_limit
    IN
    /\ Len(rows) = (IF limit <= n THEN limit ELSE n)
    /\ RowsOfEntries(rows, owned)
    /\ \A i, j \in 1..Len(rows) :
         i < j => \/ rows[i].score > rows[j].score
                  \/ /\ rows[i].score = rows[j].score
                     /\ rows[i].created_at <= rows[j].created_at
    /\ \A k \in 1..Len(rows) :
         Cardinality({h \in owned :
            \/ h.score > rows[k].score
            \/ h.score = rows[k].score /\ h.created_at < rows[k].created_at})
           < k

\* A(50), B(90), C(90) submitted in that order, C later than B: TopN with
\* limit 2 answers [B, C]
C3_Witness ==
  /\ resp.op = "get_highscores"
  /\ resp.status = 200
  /\ resp.req.eff_limit = 2
  /\ \E A, B, C \in OwnedBy(resp) :
       /\ A.id < B.id /\ B.id < C.id
       /\ A.score = 50 /\ B.score = 90 /\ C.score = 90
       /\ B.created_at < C.created_at
       /\ resp.body[1].highscores =
            <<HighscoreOut(B.player_name, 90, B.created_at),
              HighscoreOut(C.player_name, 90, C.created_at)>>

\* C9: TopN answers a limit outside [1, 50] with a validation error, before
\* the game is looked up; it uses 10 when the limit is omitted; and for a
\* tenant with fewer entries than the limit it returns all of its entries.
C9_TopNLimit ==
  resp.op = "get_highscores" =>
    LET l == resp.req.limit
        outside == l # <<>> /\ (l[1] < 1 \/ l[1] > 50)
    IN
    /\ outside => resp.status = 422
    /\ resp.status = 422 => outside
    /\ resp.status \in {0, 200} =>
         resp.req.eff_limit = (IF l = <<>> THEN 10 ELSE l[1])
    /\ resp.status = 200 =>
         LET rows == resp.body[1].highscores
             owned == OwnedBy(resp)
         IN Cardinality(owned) < resp.req.eff_limit =>
              /\ Len(rows) = Cardinality(owned)
              /\ RowsOfEntries(rows, owned)

\* a TopN without a limit returns the three entries its tenant holds
C9_Witness ==
  /\ resp.op = "get_highscores"
  /\ resp.status = 200
  /\ resp.req.limit = <<>>
  /\ Cardinality(OwnedBy(resp)) = 3
  /\ Len(resp.body[1].highscores) = 3

\* the step just taken was the first of submit_highscore: the body was
\* validated and, if valid, the game looked up
SubmitChecked ==
  resp'.op = "submit_highscore" /\ resp'.status \in {0, 404, 422}

\* the validation contract of a submission, as the claim states it
PassesContract(r) ==
  /\ Len(r.name) >= 1 /\ Len(r.name) <= 32
  /\ r.score >= 0 /\ r.score <= 1000000000

\* C4 as stated: a submission to a public_id with no tenant is answered 404,
\* whether or not its payload passes the validation contract.
C4_AlwaysNotFound ==
  (/\ resp.op = "submit_highscore"
   /\ resp.status \in {0, 404, 422}
   /\ get_game_by_public_id(games, resp.req.public_id) = {})
    => resp.status = 404

\* C4, amended: a submission whose payload fails the validation contract is
\* answered 422 whether or not its public_id has a tenant; one whose payload
\* passes and whose public_id has no tenant is answered 404; both leave the
\* store as it is.
C4_ValidationThenNotFound ==
  [][SubmitChecked =>
       LET r == resp'.req
           found == get_game_by_public_id(games, r.public_id)
       IN
       /\ ~PassesContract(r) => resp'.status = 422
       /\ (PassesContract(r) /\ found = {}) => resp'.status = 404
       /\ resp'.status = 404 => found = {}
       /\ resp'.status \in {404, 422} =>
            /\ games' = games
            /\ highscores' = highscores
            /\ pc'[resp'.conn] = "idle"]_vars

\* a well-formed submission to an unknown public_id is answered 404 while
\* another tenant's entries sit in the store
C4_Witness ==
  /\ resp.op = "submit_highscore"
  /\ resp.status = 404
  /\ PassesContract(resp.req)
  /\ highscores # {}

\* C8: every stored player_name is 1 to 32 characters long and has no leading
\* or trailing whitespace, and the name Submit and TopN return is the stored
\* one.
C8_StoredNamesTrimmed ==
  /\ \A h \in highscores :
       /\ Len(h.player_name) >= 1
       /\ Len(h.player_name) <= 32
       /\ h.player_name[1] \notin Whitespace
       /\ h.player_name[Len(h.player_name)] \notin Whitespace
  /\ (resp.op = "submit_highscore" /\ resp.status = 201) =>
       \E h \in highscores :
         /\ h.game_id = resp.req.game_id
         /\ h.player_name = resp.body[1].player_name
  /\ (resp.op = "get_highscores" /\ resp.status = 200) =>
       RowsOfEntries(resp.body[1].highscores, OwnedBy(resp))

\* no two rows of the games table share a public_id or an api_key
UniqueTokens(rows) ==
  \A g1, g2 \in rows :
    (g1.public_id = g2.public_id \/ g1.api_key = g2.api_key) => g1 = g2

\* the tenants whose public_id or api_key a registration's draw repeats
Collisions(rows, req) ==
  {g \in rows : g.public_id = req.public_id \/ g.api_key = req.api_key}

\* C11: in every state no two tenants share a public_id and no two share an
\* api_key; a registration whose generated public_id or api_key is that of
\* an existing tenant is answered 500 and leaves the set of tenants as it
\* was (no second draw is inserted); one whose tokens are both new is
\* answered 201 and adds exactly the tenant holding the generated tokens.
C11_UniqueTokens ==
  /\ [](UniqueTokens(games) /\ UniqueTokens(tx.games))
  /\ [][resp'.op = "create_game" =>
         IF Collisions(games, resp'.req) # {}
         THEN /\ resp'.status = 500
              /\ games' = games
         ELSE /\ resp'.status = 201
              /\ resp'.body[1].public_id = resp'.req.public_id
              /\ resp'.body[1].api_key = resp'.req.api_key
              /\ \E g \in games' \ games :
                   /\ games' = games \cup {g}
                   /\ g.public_id = resp'.req.public_id
                   /\ g.api_key = resp'.req.api_key]_vars

\* a registration drew a new public_id with the api_key of a tenant in the
\* table and was answered 500
C11_Witness ==
  /\ resp.op = "create_game"
  /\ resp.status = 500
  /\ \E g \in games :
       /\ g.api_key = resp.req.api_key
       /\ g.public_id # resp.req.public_id
  /\ \A g \in games : g.public_id # resp.req.public_id

====
